---------------------------- MODULE Spec2Model ----------------------------
(***************************************************************************)
(* A model of the currency converter of script.js: the rate table, the     *)
(* validators, the recursive chain conversion, the recursive compound      *)
(* interest calculation, the statistics over the rate table, and the page  *)
(* (its inputs, its two result panels, its shared error banner and the     *)
(* debounced amount listener).                                             *)
(*                                                                         *)
(* Arithmetic is exact: a finite number is a rational.  The model does not *)
(* round to binary floating point.                                         *)
(***************************************************************************)
EXTENDS Integers, Sequences, FiniteSets, TLC

(***************************************************************************)
(* Rationals <<n, d>>, d > 0, in lowest terms.                             *)
(***************************************************************************)
Abs(n) == IF n < 0 THEN -n ELSE n

RECURSIVE Gcd(_, _)
Gcd(a, b) == IF b = 0 THEN a ELSE Gcd(b, a % b)

Reduce(n, d, g) == <<n \div g, d \div g>>

RNorm(n, d) == Reduce(n, d, Gcd(Abs(n), d))

\* p * q with g1 and g2 cancelled across before multiplying
RMulBy(p, q, g1, g2) == RNorm((p[1] \div g1) * (q[1] \div g2), (p[2] \div g2) * (q[2] \div g1))

RMul(p, q) == RMulBy(p, q, Gcd(Abs(p[1]), q[2]), Gcd(Abs(q[1]), p[2]))

\* p / q, q # 0
RDiv(p, q) ==
    IF q[1] < 0 THEN RMul(p, <<-q[2], -q[1]>>) ELSE RMul(p, <<q[2], q[1]>>)

RAdd(p, q) == RNorm(p[1] * q[2] + q[1] * p[2], p[2] * q[2])

RLess(p, q) == p[1] * q[2] < q[1] * p[2]

RInt(n) == <<n, 1>>

(***************************************************************************)
(* JavaScript values.  A number is NaN, an infinity, or a finite value      *)
(* hi * Base + q with q a rational: the second limb keeps the amount limit  *)
(* 999,999,999,999 within TLC's 32-bit integers.  Str(s) is a value whose  *)
(* typeof is not 'number'.                                                  *)
(***************************************************************************)
Base == 10^6

NaN == [k |-> "nan"]
Inf(s) == [k |-> "inf", s |-> s]
Big(hi, q) == [k |-> "fin", hi |-> hi, q |-> q]
Fin(q) == Big(0, q)
Str(s) == [k |-> "str", v |-> s]
Undefined == [k |-> "undefined"]

IsNumber(x) == x.k \in {"nan", "inf", "fin"}

\* The value of a finite number as limbs: WholeHi * Base + WholeLo + Frac / q[2]
WholeHi(x) == x.hi + ((x.q[1] \div x.q[2]) \div Base)
WholeLo(x) == (x.q[1] \div x.q[2]) % Base
FracNum(x) == x.q[1] % x.q[2]

\* The rational a finite number stands for (small values only: the product
\* overflows TLC's integers otherwise, which TLC reports)
Rat(x) == IF x.hi = 0 THEN x.q ELSE RAdd(RInt(x.hi * Base), x.q)

Sign(x) ==
    CASE x.k = "inf" -> x.s
      [] x.k = "fin" -> IF x.q[1] > 0 \/ x.hi > 0 THEN 1
                        ELSE IF x.q[1] = 0 /\ x.hi = 0 THEN 0 ELSE -1

\* x * y, x / y and x + y of two JavaScript values used as numbers;
\* undefined converts to NaN
JsMul(x, y) ==
    IF x.k = "fin" /\ y.k = "fin" THEN Fin(RMul(Rat(x), Rat(y)))
    ELSE IF x.k \in {"fin", "inf"} /\ y.k \in {"fin", "inf"}
    THEN IF Sign(x) * Sign(y) = 0 THEN NaN ELSE Inf(Sign(x) * Sign(y))
    ELSE NaN

JsDiv(x, y) ==
    IF x.k = "fin" /\ y.k = "fin"
    THEN IF Sign(y) # 0 THEN Fin(RDiv(Rat(x), Rat(y)))
         ELSE IF Sign(x) = 0 THEN NaN ELSE Inf(Sign(x))
    ELSE IF x.k = "inf" /\ y.k = "fin" THEN Inf(IF Sign(y) < 0 THEN -x.s ELSE x.s)
    ELSE IF x.k = "fin" /\ y.k = "inf" THEN Fin(RInt(0))
    ELSE NaN

JsAdd(x, y) ==
    IF x.k = "fin" /\ y.k = "fin" THEN Fin(RAdd(Rat(x), Rat(y)))
    ELSE IF x.k = "inf" /\ y.k = "fin" THEN x
    ELSE IF x.k = "fin" /\ y.k = "inf" THEN y
    ELSE IF x.k = "inf" /\ y.k = "inf" /\ x.s = y.s THEN x
    ELSE NaN

\* x < y; false when either is NaN
JsLt(x, y) ==
    CASE x.k = "nan" \/ y.k = "nan" -> FALSE
      [] x.k = "inf" -> x.s < 0 /\ ~(y.k = "inf" /\ y.s < 0)
      [] y.k = "inf" -> y.s > 0
      [] OTHER -> RLess(Rat(x), Rat(y))

(***************************************************************************)
(* The rate table.                                                          *)
(***************************************************************************)
Codes ==
    <<"USD", "EUR", "GBP", "JPY", "CAD", "AUD", "CHF", "CNY", "INR", "MXN",
      "BRL", "KRW", "SGD", "HKD", "NOK", "SEK", "DKK", "NZD", "ZAR", "RUB",
      "TRY", "AED", "SAR", "PLN", "THB", "XOF">>

\* rates in hundredths
RateCents ==
    [USD |-> 100, EUR |-> 92, GBP |-> 79, JPY |-> 14950, CAD |-> 136,
     AUD |-> 153, CHF |-> 88, CNY |-> 724, INR |-> 8312, MXN |-> 1715,
     BRL |-> 497, KRW |-> 132845, SGD |-> 134, HKD |-> 782, NOK |-> 1062,
     SEK |-> 1042, DKK |-> 687, NZD |-> 164, ZAR |-> 1865, RUB |-> 9250,
     TRY |-> 3025, AED |-> 367, SAR |-> 375, PLN |-> 402, THB |-> 3550,
     XOF |-> 60350]

Keys == {Codes[i] : i \in 1..Len(Codes)}

\* symbols that are not ASCII in the source are spelled out
Symbols ==
    [USD |-> "$", EUR |-> "euro", GBP |-> "pound", JPY |-> "yen", CAD |-> "C$",
     AUD |-> "A$", CHF |-> "CHF", CNY |-> "yen", INR |-> "rupee", MXN |-> "$",
     BRL |-> "R$", KRW |-> "won", SGD |-> "S$", HKD |-> "HK$", NOK |-> "kr",
     SEK |-> "kr", DKK |-> "kr", NZD |-> "NZ$", ZAR |-> "R", RUB |-> "ruble",
     TRY |-> "lira", AED |-> "dirham", SAR |-> "riyal", PLN |-> "zl",
     THB |-> "baht", XOF |-> "CFA"]

RateScale == 100

exchangeRates ==
    [c \in Keys |-> [rate |-> Fin(RNorm(RateCents[c], RateScale)), symbol |-> Symbols[c]]]

\* Names every object answers to through its prototype
ProtoProps == {"constructor", "toString", "valueOf", "hasOwnProperty", "__proto__"}

\* exchangeRates[code]: the record of an own key, an inherited member for a
\* prototype name (an object without a rate), undefined otherwise
Lookup(code) ==
    IF code \in Keys THEN [k |-> "record", rate |-> exchangeRates[code].rate,
                               symbol |-> exchangeRates[code].symbol]
    ELSE IF code \in ProtoProps THEN [k |-> "inherited", rate |-> Undefined, symbol |-> "undefined"]
    ELSE Undefined

Truthy(v) == v.k # "undefined"


(***************************************************************************)
(* Comparisons of a JavaScript number with 0 and with the amount limit.     *)
(* Any comparison with NaN is false.                                        *)
(***************************************************************************)
MaxAmountHi == 999999
MaxAmountLo == 999999

LtZero(x) ==
    CASE x.k = "nan" -> FALSE
      [] x.k = "inf" -> x.s < 0
      [] x.k = "fin" -> WholeHi(x) < 0

\* faulty variant: the limit itself counts as above the limit
GtMaxAmount_Inclusive(x) ==
    CASE x.k = "nan" -> FALSE
      [] x.k = "inf" -> x.s > 0
      [] x.k = "fin" ->
            \/ WholeHi(x) > MaxAmountHi
            \/ WholeHi(x) = MaxAmountHi /\ WholeLo(x) >= MaxAmountLo

GtMaxAmount(x) ==
    CASE x.k = "nan" -> FALSE
      [] x.k = "inf" -> x.s > 0
      [] x.k = "fin" ->
            \/ WholeHi(x) > MaxAmountHi
            \/ /\ WholeHi(x) = MaxAmountHi
               /\ \/ WholeLo(x) > MaxAmountLo
                  \/ WholeLo(x) = MaxAmountLo /\ FracNum(x) > 0

(***************************************************************************)
(* The validators.  A call returns Ok or throws.                            *)
(***************************************************************************)
Ok == [k |-> "ok"]
ValidationError(message, field) ==
    [k |-> "throw", name |-> "ValidationError", message |-> message, field |-> field]
CurrencyError(message, currencyCode) ==
    [k |-> "throw", name |-> "CurrencyError", message |-> message, currencyCode |-> currencyCode]
TypeError == [k |-> "throw", name |-> "TypeError"]

validateCurrency(currencyCode) ==
    IF ~Truthy(Lookup(currencyCode))
    THEN CurrencyError("Currency is not supported", currencyCode)
    ELSE Ok

\* faulty variant: the first test is !Number.isFinite(amount)
validateAmount_FiniteOnly(amount) ==
    IF ~IsNumber(amount) \/ amount.k \in {"nan", "inf"}
    THEN ValidationError("Amount must be a valid number", "amount")
    ELSE IF LtZero(amount)
    THEN ValidationError("Amount cannot be negative", "amount")
    ELSE IF GtMaxAmount(amount)
    THEN ValidationError("Amount exceeds maximum limit", "amount")
    ELSE Ok

validateAmount(amount) ==
    IF ~IsNumber(amount) \/ amount.k = "nan"
    THEN ValidationError("Amount must be a valid number", "amount")
    ELSE IF LtZero(amount)
    THEN ValidationError("Amount cannot be negative", "amount")
    ELSE IF GtMaxAmount(amount)
    THEN ValidationError("Amount exceeds maximum limit", "amount")
    ELSE Ok

(***************************************************************************)
(* Number.prototype.toFixed(k) by long division, rounding half away from    *)
(* zero: [neg, int, frac, digits] reads int '.' frac, frac written with     *)
(* `digits` digits.                                                         *)
(***************************************************************************)
RECURSIVE FracDigits(_, _, _)
\* <<the first k decimals of r / d as an integer, the remainder>>, 0 <= r < d
FracDigits(r, d, k) ==
    IF k = 0 THEN <<0, r>>
    ELSE LET p == FracDigits(r, d, k - 1)
         IN  <<p[1] * 10 + ((p[2] * 10) \div d), (p[2] * 10) % d>>

Decimal(neg, int, frac, digits) ==
    [k |-> "dec", neg |-> neg, int |-> int, frac |-> frac, digits |-> digits]

\* the k decimals f carried into the integer part when they round up to 10^k
Carry(neg, int, f, k) ==
    IF f = 10^k THEN Decimal(neg, int + 1, 0, k) ELSE Decimal(neg, int, f, k)

\* fr: the k decimals and the remainder of the division by d
Rounded(neg, int, fr, d, k) ==
    IF 2 * fr[2] >= d THEN Carry(neg, int, fr[1] + 1, k) ELSE Decimal(neg, int, fr[1], k)

FixedRat(q, k) ==
    Rounded(q[1] < 0, Abs(q[1]) \div q[2], FracDigits(Abs(q[1]) % q[2], q[2], k), q[2], k)

ToFixed(x, k) ==
    CASE x.k = "nan" -> [k |-> "text", v |-> "NaN"]
      [] x.k = "inf" -> [k |-> "text", v |-> IF x.s > 0 THEN "Infinity" ELSE "-Infinity"]
      [] x.k = "fin" -> FixedRat(Rat(x), k)

(***************************************************************************)
(* convertThroughChain.  A chain entry records the text pushed: Same for    *)
(* 'X: v', Hop for 'X -> Y: v'.  The result also carries the deepest depth  *)
(* argument reached and whether the depth guard returned.                   *)
(***************************************************************************)
Same(c, text) == [kind |-> "same", from |-> c, to |-> c, text |-> text]
Hop(from, to, text) == [kind |-> "hop", from |-> from, to |-> to, text |-> text]

ChainRet(amount, chain, depth, guard) ==
    [k |-> "ret", amount |-> amount, chain |-> chain, depth |-> depth, guard |-> guard]

\* one direct step: the result and the chain with its entry
Direct(result, from, to, chain, depth) ==
    ChainRet(result, Append(chain, Hop(from, to, ToFixed(result, 4))), depth, FALSE)

RECURSIVE convertThroughChain(_, _, _, _, _)
\* faulty variant: the second call starts from the source currency again
ThroughUSD_Loop(toUSD, fromCurrency, toCurrency, chain, depth) ==
    convertThroughChain(toUSD, fromCurrency, toCurrency,
                        Append(chain, Hop(fromCurrency, "USD", ToFixed(toUSD, 4))), depth + 1)

\* faulty variant: the amount in USD is returned, the second call left out
ThroughUSD_Stop(toUSD, fromCurrency, toCurrency, chain, depth) ==
    ChainRet(toUSD, Append(chain, Hop(fromCurrency, "USD", ToFixed(toUSD, 4))), depth, FALSE)

\* the step to USD taken, then the call from USD to the target
ThroughUSD(toUSD, fromCurrency, toCurrency, chain, depth) ==
    convertThroughChain(toUSD, "USD", toCurrency,
                        Append(chain, Hop(fromCurrency, "USD", ToFixed(toUSD, 4))), depth + 1)

\* faulty variant: the step to USD multiplies by the rate
convertThroughChain_Mul(amount, fromCurrency, toCurrency, chain, depth) ==
    IF depth > 3
    THEN ChainRet(amount, chain, depth, TRUE)
    ELSE IF fromCurrency = toCurrency
    THEN ChainRet(amount, Append(chain, Same(fromCurrency, ToFixed(amount, 4))), depth, FALSE)
    ELSE IF fromCurrency # "USD" /\ toCurrency # "USD"
    THEN IF ~Truthy(Lookup(fromCurrency)) THEN TypeError
         ELSE ThroughUSD(JsDiv(amount, Lookup(fromCurrency).rate),
                         fromCurrency, toCurrency, chain, depth)
    ELSE IF fromCurrency = "USD"
    THEN IF ~Truthy(Lookup(toCurrency)) THEN TypeError
         ELSE Direct(JsMul(amount, Lookup(toCurrency).rate), "USD", toCurrency, chain, depth)
    ELSE IF ~Truthy(Lookup(fromCurrency)) THEN TypeError
         ELSE Direct(JsMul(amount, Lookup(fromCurrency).rate), fromCurrency, "USD", chain, depth)

convertThroughChain(amount, fromCurrency, toCurrency, chain, depth) ==
    IF depth > 3
    THEN ChainRet(amount, chain, depth, TRUE)
    ELSE IF fromCurrency = toCurrency
    THEN ChainRet(amount, Append(chain, Same(fromCurrency, ToFixed(amount, 4))), depth, FALSE)
    ELSE IF fromCurrency # "USD" /\ toCurrency # "USD"
    THEN IF ~Truthy(Lookup(fromCurrency)) THEN TypeError
         ELSE ThroughUSD(JsDiv(amount, Lookup(fromCurrency).rate),
                         fromCurrency, toCurrency, chain, depth)
    ELSE IF fromCurrency = "USD"
    THEN IF ~Truthy(Lookup(toCurrency)) THEN TypeError
         ELSE Direct(JsMul(amount, Lookup(toCurrency).rate), "USD", toCurrency, chain, depth)
    ELSE IF ~Truthy(Lookup(fromCurrency)) THEN TypeError
         ELSE Direct(JsDiv(amount, Lookup(fromCurrency).rate), fromCurrency, "USD", chain, depth)

(***************************************************************************)
(* calculateCompoundInterestRecursive.  years is an integer; below 0 the    *)
(* base case is never met and the call stack runs out.  The result also     *)
(* carries the number of nested calls under the first one.                  *)
(***************************************************************************)
BaseStep(text) == [year |-> 0, label |-> "Year 0 (Base)", text |-> text]
YearStep(years, prev, mult, cur) ==
    [year |-> years, label |-> "Year", prev |-> prev, mult |-> mult, cur |-> cur]

RangeError == [k |-> "throw", name |-> "RangeError"]

One == Fin(RInt(1))

\* faulty variant: the step of the year goes in front of the earlier steps
Compound_Prepend(prev, years, multiplier, currentValue) ==
    [k |-> "ret", value |-> currentValue,
     steps |-> <<YearStep(years, ToFixed(prev.value, 2), ToFixed(multiplier, 4),
                          ToFixed(currentValue, 2))>> \o prev.steps,
     depth |-> prev.depth + 1]

\* the value and the step of one year, after the call for the years before
Compound(prev, years, multiplier, currentValue) ==
    [k |-> "ret", value |-> currentValue,
     steps |-> Append(prev.steps,
                      YearStep(years, ToFixed(prev.value, 2), ToFixed(multiplier, 4),
                               ToFixed(currentValue, 2))),
     depth |-> prev.depth + 1]

\* faulty variant: simple interest on the principal of the year before
CompoundYear_Additive(prev, years, multiplier) ==
    IF prev.k = "throw" THEN prev
    ELSE Compound(prev, years, multiplier, JsAdd(prev.value, multiplier))

\* an exception of the call for the years before passes through
CompoundYear(prev, years, multiplier) ==
    IF prev.k = "throw" THEN prev
    ELSE Compound(prev, years, multiplier, JsMul(prev.value, multiplier))

RECURSIVE calculateCompoundInterestRecursive(_, _, _, _)
calculateCompoundInterestRecursive(principal, rate, years, steps) ==
    CASE years = 0 ->
            [k |-> "ret", value |-> principal,
             steps |-> Append(steps, BaseStep(ToFixed(principal, 2))), depth |-> 0]
      [] years < 0 -> RangeError
      [] OTHER ->
            CompoundYear(calculateCompoundInterestRecursive(principal, rate, years - 1, steps),
                         years, JsAdd(One, rate))

(***************************************************************************)
(* Display formatting.  toLocaleString('en-US', {minimumFractionDigits,     *)
(* maximumFractionDigits}) rounds to the maximum and drops trailing zeros   *)
(* down to the minimum; digit grouping does not change the number read.     *)
(***************************************************************************)
JsGe(x, y) == x.k # "nan" /\ y.k # "nan" /\ ~JsLt(x, y)

JsAbs(x) ==
    CASE x.k = "inf" -> Inf(1)
      [] x.k = "fin" -> Fin(<<Abs(Rat(x)[1]), Rat(x)[2]>>)
      [] OTHER -> NaN

RECURSIVE StripZeros(_, _)
StripZeros(dec, min) ==
    IF dec.digits > min /\ dec.frac % 10 = 0
    THEN StripZeros(Decimal(dec.neg, dec.int, dec.frac \div 10, dec.digits - 1), min)
    ELSE dec

Localized(fixed, min) == IF fixed.k = "dec" THEN StripZeros(fixed, min) ELSE fixed

ToLocaleString(x, min, max) == Localized(ToFixed(x, max), min)

\* the decimals formatRate writes
RateDigits(rate) ==
    IF JsGe(rate, Fin(RInt(100))) THEN 2
    ELSE IF JsGe(rate, One) THEN 4
    ELSE 6

formatRate(rate) == ToFixed(rate, RateDigits(rate))

\* the most decimals formatCurrency writes, given Math.abs(amount)
CurrencyDigits(abs) ==
    IF JsGe(abs, Fin(RInt(1000000))) THEN 2
    ELSE IF JsGe(abs, One) THEN 4
    ELSE 6

formatCurrency(amount) == ToLocaleString(amount, 2, CurrencyDigits(JsAbs(amount)))

(***************************************************************************)
(* calculateAndDisplayStats: the six statistics shown in the stats grid.    *)
(***************************************************************************)
RECURSIVE SumRates(_, _)
SumRates(rates, i) ==
    IF i = 0 THEN Fin(RInt(0)) ELSE JsAdd(SumRates(rates, i - 1), rates[i].rate)

\* sortedByRateDesc[0] and sortedByRateAsc[0]: the sort is stable, so among
\* equal rates the earliest entry comes first
HighestRate(rates) ==
    LET i == CHOOSE i \in 1..Len(rates) :
                 /\ \A j \in 1..Len(rates) : ~JsLt(rates[i].rate, rates[j].rate)
                 /\ \A j \in 1..(i - 1) : JsLt(rates[j].rate, rates[i].rate)
    IN  rates[i]

LowestRate(rates) ==
    LET i == CHOOSE i \in 1..Len(rates) :
                 /\ \A j \in 1..Len(rates) : ~JsLt(rates[j].rate, rates[i].rate)
                 /\ \A j \in 1..(i - 1) : JsLt(rates[i].rate, rates[j].rate)
    IN  rates[i]

\* faulty variant: 'weaker' is rate >= 1
calculateAndDisplayStats_WeakerOrEqual ==
    LET allRates == [i \in 1..Len(Codes) |->
                        [code |-> Codes[i], rate |-> exchangeRates[Codes[i]].rate]]
        strongerThanUSD == {i \in 1..Len(allRates) : JsLt(allRates[i].rate, One)}
        weakerThanUSD == {i \in 1..Len(allRates) : JsGe(allRates[i].rate, One)}
        sumOfRates == SumRates(allRates, Len(allRates))
        averageRate == JsDiv(sumOfRates, Fin(RInt(Len(allRates))))
    IN  [total |-> Len(allRates),
         stronger |-> Cardinality(strongerThanUSD),
         weaker |-> Cardinality(weakerThanUSD),
         average |-> ToFixed(averageRate, 2),
         highest |-> HighestRate(allRates),
         lowest |-> LowestRate(allRates)]

calculateAndDisplayStats ==
    LET allRates == [i \in 1..Len(Codes) |->
                        [code |-> Codes[i], rate |-> exchangeRates[Codes[i]].rate]]
        strongerThanUSD == {i \in 1..Len(allRates) : JsLt(allRates[i].rate, One)}
        weakerThanUSD == {i \in 1..Len(allRates) : JsLt(One, allRates[i].rate)}
        sumOfRates == SumRates(allRates, Len(allRates))
        averageRate == JsDiv(sumOfRates, Fin(RInt(Len(allRates))))
    IN  [total |-> Len(allRates),
         stronger |-> Cardinality(strongerThanUSD),
         weaker |-> Cardinality(weakerThanUSD),
         average |-> ToFixed(averageRate, 2),
         highest |-> HighestRate(allRates),
         lowest |-> LowestRate(allRates)]

(***************************************************************************)
(* The text of the inputs and what parseFloat and parseInt read from it.    *)
(***************************************************************************)
AmountTexts == {"", "-5", "100"}
PrincipalTexts == {"", "-1", "1000"}
RateTexts == {"", "5", "101"}
YearsTexts == {"", "0", "3.9", "51"}

\* the text of the three calculator inputs at a click: every text of one
\* input beside valid text in the other two, and one case in which all
\* three are invalid
CalcInputs ==
    {<<p, "5", "3.9">> : p \in PrincipalTexts}
      \cup {<<"1000", r, "3.9">> : r \in RateTexts}
      \cup {<<"1000", "5", y>> : y \in YearsTexts}
      \cup {<<"-1", "101", "51">>}

ParseFloat(text) ==
    CASE text = "" -> NaN
      [] text = "-5" -> Fin(RInt(-5))
      [] text = "-1" -> Fin(RInt(-1))
      [] text = "0" -> Fin(RInt(0))
      [] text = "5" -> Fin(RInt(5))
      [] text = "100" -> Fin(RInt(100))
      [] text = "101" -> Fin(RInt(101))
      [] text = "1000" -> Fin(RInt(1000))

ParseInt(text) ==
    CASE text = "" -> NaN
      [] text = "0" -> Fin(RInt(0))
      [] text = "2" -> Fin(RInt(2))
      [] text = "3.9" -> Fin(RInt(3))
      [] text = "50" -> Fin(RInt(50))
      [] text = "51" -> Fin(RInt(51))


(***************************************************************************)
(* The two handlers, as the outcome of one run on the text of the inputs:   *)
(* either the display the try block writes, or the error the catch block    *)
(* reports; with the number of calls made to the recursive computation.     *)
(***************************************************************************)
Caught(error, calls) == [k |-> "caught", error |-> error, calls |-> calls]

\* the banner text the catch block of convertCurrency shows
ConvertBanner(error) ==
    CASE error.name = "CurrencyError" -> <<"Currency Error", error.message>>
      [] error.name = "ValidationError" -> <<"Validation Error", error.message>>
      [] OTHER -> <<"An unexpected error occurred. Please try again.">>

\* the banner text the catch block of handleCompoundInterestCalculation shows
CalcBanner(error) ==
    CASE error.name = "ValidationError" -> <<"Validation Error", error.message>>
      [] OTHER -> <<"An unexpected error occurred during calculation.">>

\* faulty variant: the rate of the source over the rate of the target
directRate_Inverse(fromCurrency, toCurrency) ==
    JsDiv(Lookup(fromCurrency).rate, Lookup(toCurrency).rate)

\* directRate as convertCurrency computes it
directRate(fromCurrency, toCurrency) ==
    JsDiv(Lookup(toCurrency).rate, Lookup(fromCurrency).rate)

\* convertCurrency without the validation of the target code
convertCurrency_NoTargetCheck(amountText, fromCurrency, toCurrency) ==
    LET amount == ParseFloat(amountText)
    IN  IF validateAmount(amount).k = "throw" THEN Caught(validateAmount(amount), 0)
        ELSE IF validateCurrency(fromCurrency).k = "throw"
        THEN Caught(validateCurrency(fromCurrency), 0)
        ELSE LET converted == convertThroughChain(amount, fromCurrency, toCurrency, <<>>, 0)
             IN  IF converted.k = "throw" \/ ~Truthy(Lookup(toCurrency))
                 THEN Caught(TypeError, 1)
                 ELSE LET toSymbol == Lookup(toCurrency).symbol
                      IN  [k |-> "shown",
                           calls |-> 1,
                           resultAmount |-> <<toSymbol, formatCurrency(converted.amount)>>,
                           exchangeRate |-> <<fromCurrency,
                                              formatRate(directRate(fromCurrency, toCurrency)),
                                              toCurrency>>,
                           conversionPath |-> converted.chain]

convertCurrency(amountText, fromCurrency, toCurrency) ==
    LET amount == ParseFloat(amountText)
    IN  IF validateAmount(amount).k = "throw" THEN Caught(validateAmount(amount), 0)
        ELSE IF validateCurrency(fromCurrency).k = "throw"
        THEN Caught(validateCurrency(fromCurrency), 0)
        ELSE IF validateCurrency(toCurrency).k = "throw"
        THEN Caught(validateCurrency(toCurrency), 0)
        ELSE LET converted == convertThroughChain(amount, fromCurrency, toCurrency, <<>>, 0)
             IN  IF converted.k = "throw" THEN Caught(converted, 1)
                 ELSE LET toSymbol == Lookup(toCurrency).symbol
                      IN  [k |-> "shown",
                           calls |-> 1,
                           resultAmount |-> <<toSymbol, formatCurrency(converted.amount)>>,
                           exchangeRate |-> <<fromCurrency,
                                              formatRate(directRate(fromCurrency, toCurrency)),
                                              toCurrency>>,
                           conversionPath |-> converted.chain]

MaxYearsAllowed == 50

IsNaN(x) == x.k = "nan"

\* steps.slice(-5)
LastFive(steps) ==
    IF Len(steps) <= 5 THEN steps ELSE SubSeq(steps, Len(steps) - 4, Len(steps))

handleCompoundInterestCalculation(principalText, rateText, yearsText) ==
    LET principal == ParseFloat(principalText)
        rate == JsDiv(ParseFloat(rateText), Fin(RInt(100)))
        years == ParseInt(yearsText)
    IN  IF IsNaN(principal) \/ JsLt(principal, Fin(RInt(0)))
        THEN Caught(ValidationError("Principal must be a positive number", "principal"), 0)
        ELSE IF IsNaN(rate) \/ JsLt(rate, Fin(RInt(0))) \/ JsLt(One, rate)
        THEN Caught(ValidationError("Interest rate must be between 0% and 100%",
                                    "interestRate"), 0)
        ELSE IF IsNaN(years) \/ JsLt(years, One) \/ JsLt(Fin(RInt(MaxYearsAllowed)), years)
        THEN Caught(ValidationError("Years must be between 1 and 50", "years"), 0)
        ELSE LET r == calculateCompoundInterestRecursive(principal, rate, Rat(years)[1], <<>>)
             IN  [k |-> "shown",
                  calls |-> 1,
                  futureValue |-> ToLocaleString(r.value, 2, 2),
                  recursionSteps |-> LastFive(r.steps)]


(***************************************************************************)
(* The page.                                                                *)
(***************************************************************************)
VARIABLES
    phase,          \* "script": script evaluated; "ready": init() done and
                    \* listening; "failed": init() threw before listening
    amountValue,    \* amountInput.value
    fromValue,      \* fromCurrencySelect.value
    toValue,        \* toCurrencySelect.value
    resultShown,    \* resultDiv has class 'show'
    result,         \* the text of resultAmount, exchangeRate, conversionPath
    errorShown,     \* errorMessage has class 'show'
    errorText,      \* errorMessage.textContent
    calcShown,      \* calcResult has class 'show'
    calc,           \* the text of futureValue and recursionSteps
    statsGrid,      \* the statistics shown
    timers,         \* the pending timers of setTimeout: [id, elapsed]
    timeout,        \* the variable `timeout` of the debounce closure; 0: undefined
    sinceInput,     \* time since the last 'input' event, up to Wait
    burstMany,      \* the current burst of 'input' events has more than one
    burstFires,     \* calls of convertCurrency by the debouncer in this burst
    last,           \* the latest handler run: how many times it called its
                    \* recursive computation, and whether the inputs it read
                    \* were invalid
    probe           \* the latest direct call of a function and its result

vars == <<phase, amountValue, fromValue, toValue, resultShown, result, errorShown,
          errorText, calcShown, calc, statsGrid, timers, timeout, sinceInput,
          burstMany, burstFires, last, probe>>

pageVars == <<phase, amountValue, fromValue, toValue, resultShown, result, errorShown,
              errorText, calcShown, calc, statsGrid, timers, timeout, sinceInput,
              burstMany, burstFires, last>>

Wait == 300
TickMs == 150

\* the values a select can hold: an option populateCurrencySelects added
\* (two of them here), and '' when no option is selected
SelectValues == {"USD", "EUR", ""}

Init ==
    /\ phase = "script"
    /\ amountValue \in AmountTexts
    /\ fromValue = ""
    /\ toValue = ""
    /\ resultShown = FALSE
    /\ result = <<>>
    /\ errorShown = FALSE
    /\ errorText = <<>>
    /\ calcShown = FALSE
    /\ calc = <<>>
    /\ statsGrid = <<>>
    /\ timers = {}
    /\ timeout = 0
    /\ sinceInput = Wait
    /\ burstMany = FALSE
    /\ burstFires = 0
    /\ last = [handler |-> "none", calls |-> 0, rejected |-> FALSE]
    /\ probe = [op |-> "none"]

(***************************************************************************)
(* debounce(convertCurrency, 300): the closure's `timeout` and the timers   *)
(* it sets and clears.                                                      *)
(***************************************************************************)
clearTimeout(pending, id) == {t \in pending : t.id # id}

\* the id setTimeout returns: one no pending timer has
FreshId(pending) ==
    CHOOSE id \in 1..(Cardinality(pending) + 1) :
        /\ \A t \in pending : t.id # id
        /\ \A j \in 1..(id - 1) : \E t \in pending : t.id = j

\* executedFunction without its clearTimeout
executedFunction_NoClear(pending, id) ==
    LET fresh == FreshId(pending)
    IN  [timers |-> pending \cup {[id |-> fresh, elapsed |-> 0]}, timeout |-> fresh]

\* executedFunction: clearTimeout(timeout); timeout = setTimeout(later, wait)
executedFunction(pending, id) ==
    LET cleared == clearTimeout(pending, id)
        fresh == FreshId(cleared)
    IN  [timers |-> cleared \cup {[id |-> fresh, elapsed |-> 0]}, timeout |-> fresh]

\* later, run for the timer `fired` when it is due: clearTimeout(timeout),
\* then func(...args)
later(pending, id, fired) == clearTimeout(pending \ {fired}, id)

\* init() on DOMContentLoaded; new Chart(...) throws when the Chart.js
\* script did not load, and the listeners are then never attached
DOMContentLoaded(chartLoaded) ==
    /\ phase = "script"
    /\ fromValue' = "USD"
    /\ toValue' = "EUR"
    /\ statsGrid' = calculateAndDisplayStats
    /\ IF chartLoaded
       THEN phase' = "ready" /\ UNCHANGED <<errorShown, errorText>>
       ELSE /\ phase' = "failed"
            /\ errorShown' = TRUE
            /\ errorText' = <<"Failed to initialize application. Please refresh the page.">>
    /\ UNCHANGED <<amountValue, resultShown, result, calcShown, calc, timers, timeout,
                   sinceInput, burstMany, burstFires, last, probe>>

\* a timer is due; it runs before time passes or a later event is handled
NoneDue == \A t \in timers : t.elapsed < Wait

\* the amount or a code is rejected by its validator
ConvertRejected(amountText, fromCurrency, toCurrency) ==
    \/ validateAmount(ParseFloat(amountText)).k = "throw"
    \/ validateCurrency(fromCurrency).k = "throw"
    \/ validateCurrency(toCurrency).k = "throw"

\* principal NaN or < 0, rate NaN or < 0 or > 1, years NaN or < 1 or > 50
CalcInvalid(principalText, rateText, yearsText) ==
    LET principal == ParseFloat(principalText)
        rate == JsDiv(ParseFloat(rateText), Fin(RInt(100)))
        years == ParseInt(yearsText)
    IN  \/ IsNaN(principal) \/ Sign(principal) < 0
        \/ IsNaN(rate) \/ Sign(rate) < 0 \/ JsLt(One, rate)
        \/ IsNaN(years) \/ JsLt(years, One) \/ JsLt(Fin(RInt(50)), years)

\* one run of convertCurrency on the current inputs
RunConvert(amountText, fromCurrency, toCurrency) ==
    LET out == convertCurrency(amountText, fromCurrency, toCurrency)
    IN  /\ IF out.k = "shown"
           THEN /\ result' = [resultAmount |-> out.resultAmount,
                              exchangeRate |-> out.exchangeRate,
                              conversionPath |-> out.conversionPath]
                /\ resultShown' = TRUE
                /\ errorShown' = FALSE
                /\ UNCHANGED errorText
           ELSE /\ resultShown' = FALSE
                /\ errorText' = ConvertBanner(out.error)
                /\ errorShown' = TRUE
                /\ UNCHANGED result
        /\ last' = [handler |-> "convertCurrency", calls |-> out.calls,
                    rejected |-> ConvertRejected(amountText, fromCurrency, toCurrency)]

\* click on convertBtn
ConvertClick ==
    /\ phase = "ready" /\ NoneDue
    /\ RunConvert(amountValue, fromValue, toValue)
    /\ UNCHANGED <<phase, amountValue, fromValue, toValue, calcShown, calc, statsGrid,
                   timers, timeout, sinceInput, burstMany, burstFires, probe>>

\* keypress on amountInput: Enter converts, any other key does nothing
KeyPress(key) ==
    /\ phase = "ready" /\ NoneDue
    /\ IF key = "Enter"
       THEN RunConvert(amountValue, fromValue, toValue)
       ELSE UNCHANGED <<resultShown, result, errorShown, errorText, last>>
    /\ UNCHANGED <<phase, amountValue, fromValue, toValue, calcShown, calc, statsGrid,
                   timers, timeout, sinceInput, burstMany, burstFires, probe>>

\* change on fromCurrencySelect
FromChange(code) ==
    /\ phase = "ready" /\ NoneDue
    /\ code # fromValue
    /\ fromValue' = code
    /\ RunConvert(amountValue, code, toValue)
    /\ UNCHANGED <<phase, amountValue, toValue, calcShown, calc, statsGrid,
                   timers, timeout, sinceInput, burstMany, burstFires, probe>>

\* change on toCurrencySelect
ToChange(code) ==
    /\ phase = "ready" /\ NoneDue
    /\ code # toValue
    /\ toValue' = code
    /\ RunConvert(amountValue, fromValue, code)
    /\ UNCHANGED <<phase, amountValue, fromValue, calcShown, calc, statsGrid,
                   timers, timeout, sinceInput, burstMany, burstFires, probe>>

\* faulty variant: convertCurrency runs before the two values are exchanged
swapCurrencies_ConvertFirst ==
    /\ phase = "ready" /\ NoneDue
    /\ fromValue' = toValue
    /\ toValue' = fromValue
    /\ RunConvert(amountValue, fromValue, toValue)
    /\ UNCHANGED <<phase, amountValue, calcShown, calc, statsGrid,
                   timers, timeout, sinceInput, burstMany, burstFires, probe>>

\* click on swapBtn
swapCurrencies ==
    /\ phase = "ready" /\ NoneDue
    /\ fromValue' = toValue
    /\ toValue' = fromValue
    /\ RunConvert(amountValue, toValue, fromValue)
    /\ UNCHANGED <<phase, amountValue, calcShown, calc, statsGrid,
                   timers, timeout, sinceInput, burstMany, burstFires, probe>>


\* 'input' on amountInput: the text changed; the debounced listener runs
AmountInput(text) ==
    /\ phase = "ready" /\ NoneDue
    /\ text # amountValue
    /\ amountValue' = text
    /\ timers' = executedFunction(timers, timeout).timers
    /\ timeout' = executedFunction(timers, timeout).timeout
    /\ sinceInput' = 0
    /\ IF sinceInput < Wait
       THEN burstMany' = TRUE /\ UNCHANGED burstFires
       ELSE burstMany' = FALSE /\ burstFires' = 0
    /\ UNCHANGED <<phase, fromValue, toValue, resultShown, result, errorShown, errorText,
                   calcShown, calc, statsGrid, last, probe>>

\* a due timer runs `later`, which calls convertCurrency
TimerFire ==
    /\ phase = "ready"
    /\ \E t \in timers :
          /\ t.elapsed >= Wait
          /\ timers' = later(timers, timeout, t)
    /\ RunConvert(amountValue, fromValue, toValue)
    /\ burstFires' = IF burstFires < 2 THEN burstFires + 1 ELSE burstFires
    /\ UNCHANGED <<phase, amountValue, fromValue, toValue, calcShown, calc, statsGrid,
                   timeout, sinceInput, burstMany, probe>>

\* time passes, unless a timer is due
Tick ==
    /\ phase = "ready" /\ NoneDue
    /\ timers # {} \/ sinceInput < Wait
    /\ timers' = {[t EXCEPT !.elapsed = @ + TickMs] : t \in timers}
    /\ sinceInput' = IF sinceInput < Wait THEN sinceInput + TickMs ELSE sinceInput
    /\ UNCHANGED <<phase, amountValue, fromValue, toValue, resultShown, result, errorShown,
                   errorText, calcShown, calc, statsGrid, timeout, burstMany, burstFires,
                   last, probe>>

\* click on calculateBtn, with the text then in the three calculator inputs
\* (no listener watches them, so they are read here only)
CalculateClick(principalText, rateText, yearsText) ==
    /\ phase = "ready" /\ NoneDue
    /\ LET out == handleCompoundInterestCalculation(principalText, rateText, yearsText)
       IN  /\ IF out.k = "shown"
              THEN /\ calc' = [futureValue |-> out.futureValue,
                               recursionSteps |-> out.recursionSteps]
                   /\ calcShown' = TRUE
                   /\ errorShown' = FALSE
                   /\ UNCHANGED errorText
              ELSE /\ errorText' = CalcBanner(out.error)
                   /\ errorShown' = TRUE
                   /\ calcShown' = FALSE
                   /\ UNCHANGED calc
           /\ last' = [handler |-> "handleCompoundInterestCalculation", calls |-> out.calls,
                       rejected |-> CalcInvalid(principalText, rateText, yearsText)]
    /\ UNCHANGED <<phase, amountValue, fromValue, toValue, resultShown, result, statsGrid,
                   timers, timeout, sinceInput, burstMany, burstFires, probe>>

Next ==
    \/ \E chartLoaded \in BOOLEAN : DOMContentLoaded(chartLoaded)
    \/ ConvertClick
    \/ \E key \in {"Enter", "a"} : KeyPress(key)
    \/ \E code \in SelectValues : FromChange(code)
    \/ \E code \in SelectValues : ToChange(code)
    \/ swapCurrencies
    \/ \E text \in AmountTexts : AmountInput(text)
    \/ TimerFire
    \/ Tick
    \/ \E in \in CalcInputs : CalculateClick(in[1], in[2], in[3])

Spec == Init /\ [][Next]_vars

\* a conversion made at once by its event, not by the debouncer
Immediate ==
    \/ ConvertClick
    \/ KeyPress("Enter")
    \/ \E code \in SelectValues : FromChange(code)
    \/ \E code \in SelectValues : ToChange(code)
    \/ swapCurrencies

\* the page when the calculator is left alone
ConverterNext ==
    \/ \E chartLoaded \in BOOLEAN : DOMContentLoaded(chartLoaded)
    \/ \E key \in {"Enter", "a"} : KeyPress(key)
    \/ Immediate
    \/ \E text \in AmountTexts : AmountInput(text)
    \/ TimerFire
    \/ Tick

ConverterSpec == Init /\ [][ConverterNext]_vars


(***************************************************************************)
(* Direct calls of the functions, on arguments drawn from bounded sets.     *)
(* probe holds the call and what it returned.                               *)
(***************************************************************************)
MaxFracDen == 2
MaxConvAmount == 3
MaxYears == 5

\* the fractions k / d of [0, 1), d up to MaxFracDen
Fractions == UNION {{RNorm(k, d) : k \in 0..(d - 1)} : d \in 1..MaxFracDen}

\* arguments of validateAmount: values that are not numbers, NaN, the
\* infinities, and finite values around 0 and around the limit
AmountProbes ==
    {NaN, Inf(1), Inf(-1), Str("12"), Undefined}
      \cup {Big(hi, RAdd(RInt(lo), f)) :
               hi \in {-1, 0, 1, MaxAmountHi - 1, MaxAmountHi, MaxAmountHi + 1},
               lo \in {0, 1, MaxAmountLo - 1, MaxAmountLo},
               f \in Fractions}
      \cup {Fin(<<-g[1], g[2]>>) : g \in {h \in Fractions : h[1] > 0}}

\* arguments of validateCurrency
CodeProbes == Keys \cup ProtoProps \cup {"", "ZZZ", "usd", "US", "Euro"}

\* valid amounts to convert
ConvAmounts ==
    {Fin(RAdd(RInt(n), f)) : n \in 0..MaxConvAmount, f \in Fractions}
      \cup {Fin(RInt(100))}

\* principals and rates of the calculator
Principals == {Fin(RInt(0)), Fin(RInt(1)), Fin(RInt(1000)), Fin(<<1, 2>>)}
Rates == {Fin(RInt(0)), Fin(<<1, 20>>), Fin(<<1, 2>>), Fin(RInt(1))}

\* the value stays within TLC's integers: few years, or nothing to compound
Representable(principal, rate, years) ==
    years <= MaxYears \/ Sign(principal) = 0 \/ Sign(rate) = 0

ProbeValidateAmount ==
    /\ probe.op = "none"
    /\ \E amount \in AmountProbes :
          probe' = [op |-> "validateAmount", amount |-> amount,
                    out |-> validateAmount(amount)]
    /\ UNCHANGED pageVars

ProbeValidateCurrency ==
    /\ probe.op = "none"
    /\ \E code \in CodeProbes :
          probe' = [op |-> "validateCurrency", code |-> code,
                    out |-> validateCurrency(code)]
    /\ UNCHANGED pageVars

ProbeConvert ==
    /\ probe.op = "none"
    /\ \E amount \in ConvAmounts, fromCurrency \in Keys, toCurrency \in Keys :
          probe' = [op |-> "convert", amount |-> amount, from |-> fromCurrency,
                    to |-> toCurrency,
                    out |-> convertThroughChain(amount, fromCurrency, toCurrency, <<>>, 0)]
    /\ UNCHANGED pageVars

\* the codes validateCurrency lets through
ValidatedCodes == {c \in CodeProbes : validateCurrency(c) = Ok}

\* a call with validated codes of which one at least is not a key of the table
ProbeConvertInherited ==
    /\ probe.op = "none"
    /\ \E amount \in ConvAmounts, fromCurrency \in ValidatedCodes, toCurrency \in ValidatedCodes :
          /\ fromCurrency \notin Keys \/ toCurrency \notin Keys
          /\ probe' = [op |-> "convertInherited", amount |-> amount, from |-> fromCurrency,
                       to |-> toCurrency,
                       out |-> convertThroughChain(amount, fromCurrency, toCurrency, <<>>, 0)]
    /\ UNCHANGED pageVars

\* convert the result back
ProbeConvertBack ==
    /\ probe.op = "convert"
    /\ probe' = [op |-> "back", amount |-> probe.amount, from |-> probe.from,
                 to |-> probe.to, there |-> probe.out,
                 out |-> convertThroughChain(probe.out.amount, probe.to, probe.from, <<>>, 0)]
    /\ UNCHANGED pageVars

ProbeCompound ==
    /\ probe.op = "none"
    /\ \E principal \in Principals, rate \in Rates, years \in 0..MaxYears :
          probe' = [op |-> "compound", principal |-> principal, rate |-> rate,
                    years |-> years,
                    out |-> calculateCompoundInterestRecursive(principal, rate, years, <<>>)]
    /\ UNCHANGED pageVars

\* the call for one more year: its recursive call, for years - 1, is the call
\* made before, and the rest of its body runs on that result
ProbeCompoundOuter ==
    /\ probe.op = "compound"
    /\ probe.years < MaxYearsAllowed
    /\ Representable(probe.principal, probe.rate, probe.years + 1)
    /\ probe' = [probe EXCEPT !.years = @ + 1,
                              !.out = CompoundYear(probe.out, probe.years + 1,
                                                   JsAdd(One, probe.rate))]
    /\ UNCHANGED pageVars

FnNext ==
    \/ ProbeValidateAmount
    \/ ProbeValidateCurrency
    \/ ProbeConvert
    \/ ProbeConvertInherited
    \/ ProbeConvertBack
    \/ ProbeCompound
    \/ ProbeCompoundOuter

\* the page plays no part in a direct call
FnInit == Init /\ amountValue = ""

FnSpec == FnInit /\ [][FnNext]_vars


(***************************************************************************)
(* Properties of the page.                                                  *)
(***************************************************************************)
\* C1: a run of convertCurrency on an amount or a code its validator rejects
\* never calls convertThroughChain and ends with the result panel hidden and
\* the error banner shown; a run of handleCompoundInterestCalculation on an
\* invalid principal, rate or years never calls
\* calculateCompoundInterestRecursive and ends with the calculator panel
\* hidden and the error banner shown.
C1_ValidationShortCircuits ==
    /\ (last.handler = "convertCurrency" /\ last.rejected)
          => last.calls = 0 /\ ~resultShown /\ errorShown
    /\ (last.handler = "handleCompoundInterestCalculation" /\ last.rejected)
          => last.calls = 0 /\ ~calcShown /\ errorShown

\* a conversion with no source currency selected has just been rejected,
\* while a calculation is shown
C1_Witness ==
    /\ last = [handler |-> "convertCurrency", calls |-> 0, rejected |-> TRUE]
    /\ fromValue = ""
    /\ ~resultShown /\ errorShown
    /\ errorText[1] = "Currency Error"
    /\ calcShown

\* C2: at most one debounce timer is pending, and it is the one the latest
\* 'input' event set (the event cancelled the one before); a burst of events
\* less than Wait apart gets no call of convertCurrency from the debouncer
\* while its timer is pending and exactly one once it is not, made only when
\* Wait has passed since the last event of the burst.
C2_DebounceLastCallWins ==
    /\ Cardinality(timers) <= 1
    /\ \A t \in timers : t.id = timeout /\ t.elapsed = sinceInput
    /\ burstFires <= 1
    /\ burstFires = 1 => sinceInput >= Wait
    /\ timeout # 0 => (timers = {} <=> burstFires = 1)

\* a burst of at least two events has had its one call
C2_Witness ==
    /\ burstMany
    /\ burstFires = 1
    /\ timers = {}
    /\ last = [handler |-> "convertCurrency", calls |-> 1, rejected |-> FALSE]

\* C10: once init() has run, the statistics shown count 26 currencies, and
\* the currencies with rate < 1, those with rate > 1 and USD make up all of
\* them; every rate of the table is > 0 and USD alone has rate 1.
C10_StatsPartition ==
    phase # "script" =>
        /\ statsGrid.total = 26
        /\ statsGrid.total = Cardinality(Keys)
        /\ statsGrid.stronger + statsGrid.weaker + 1 = statsGrid.total
        /\ statsGrid.stronger = Cardinality({c \in Keys : RateCents[c] < RateScale})
        /\ statsGrid.weaker = Cardinality({c \in Keys : RateCents[c] > RateScale})
        /\ \A c \in Keys : Sign(exchangeRates[c].rate) > 0
        /\ \A c \in Keys : exchangeRates[c].rate = One <=> c = "USD"

\* the page is listening and shows 3 currencies stronger and 22 weaker
C10_Witness ==
    /\ phase = "ready"
    /\ statsGrid.total = 26
    /\ statsGrid.stronger = 3
    /\ statsGrid.weaker = 22


(***************************************************************************)
(* Properties of the functions, called directly.                            *)
(***************************************************************************)
\* C3: for registered codes and a valid amount, convertThroughChain returns
\* the amount unchanged with one chain entry when from = to; otherwise
\* (amount / rate[from]) * rate[to] with two entries, from -> USD then
\* USD -> to, when neither is USD; amount * rate[to] with one entry when from
\* is USD; amount / rate[from] with one entry when to is USD.
C3_ThreeCases ==
    probe.op = "convert" =>
        LET a == Rat(probe.amount)
            out == probe.out
            RateOf(code) == RNorm(RateCents[code], RateScale)
        IN  /\ out.k = "ret" /\ ~out.guard
            /\ IF probe.from = probe.to
               THEN /\ out.amount = probe.amount
                    /\ Len(out.chain) = 1
                    /\ out.chain[1].kind = "same" /\ out.chain[1].from = probe.from
               ELSE IF probe.from # "USD" /\ probe.to # "USD"
               THEN /\ out.amount = Fin(RMul(RDiv(a, RateOf(probe.from)), RateOf(probe.to)))
                    /\ Len(out.chain) = 2
                    /\ out.chain[1].from = probe.from /\ out.chain[1].to = "USD"
                    /\ out.chain[2].from = "USD" /\ out.chain[2].to = probe.to
               ELSE IF probe.from = "USD"
               THEN /\ out.amount = Fin(RMul(a, RateOf(probe.to)))
                    /\ Len(out.chain) = 1
                    /\ out.chain[1].from = "USD" /\ out.chain[1].to = probe.to
               ELSE /\ out.amount = Fin(RDiv(a, RateOf(probe.from)))
                    /\ Len(out.chain) = 1
                    /\ out.chain[1].from = probe.from /\ out.chain[1].to = "USD"

\* 100 EUR to GBP: 100 / 0.92 * 0.79 = 1975 / 23, in two steps
C3_Witness ==
    /\ probe.op = "convert"
    /\ probe.amount = Fin(RInt(100))
    /\ probe.from = "EUR" /\ probe.to = "GBP"
    /\ probe.out.amount = Fin(<<1975, 23>>)
    /\ Len(probe.out.chain) = 2

\* C4: converting a valid amount from X to Y and the result from Y back to X
\* gives the amount again (the arithmetic here is exact).
C4_RoundTrip ==
    probe.op = "back" => probe.out.k = "ret" /\ probe.out.amount = probe.amount

\* 3 EUR to JPY and back, through USD both ways
C4_Witness ==
    /\ probe.op = "back"
    /\ probe.from = "EUR" /\ probe.to = "JPY"
    /\ probe.amount = Fin(RInt(MaxConvAmount))
    /\ probe.there.amount # probe.amount
    /\ Len(probe.there.chain) = 2 /\ Len(probe.out.chain) = 2
    /\ probe.out.amount = probe.amount

\* C5 as stated: validateAmount answers 'Amount must be a valid number' to
\* every argument that is not a finite number.
C5_NonFiniteIsInvalid ==
    (probe.op = "validateAmount" /\ probe.amount.k # "fin") =>
        probe.out = ValidationError("Amount must be a valid number", "amount")

\* C5: validateAmount answers 'Amount must be a valid number' to every
\* argument that is not a number and to NaN; it answers 'Amount exceeds
\* maximum limit' to +Infinity and 'Amount cannot be negative' to -Infinity.
C5_NonFiniteOutcomes ==
    probe.op = "validateAmount" =>
        /\ (~IsNumber(probe.amount) \/ probe.amount.k = "nan") =>
              probe.out = ValidationError("Amount must be a valid number", "amount")
        /\ (probe.amount.k = "inf" /\ probe.amount.s > 0) =>
              probe.out = ValidationError("Amount exceeds maximum limit", "amount")
        /\ (probe.amount.k = "inf" /\ probe.amount.s < 0) =>
              probe.out = ValidationError("Amount cannot be negative", "amount")

\* validateAmount(Infinity) has answered 'Amount exceeds maximum limit'
C5_Witness ==
    /\ probe.op = "validateAmount"
    /\ probe.amount = Inf(1)
    /\ probe.out.k = "throw"
    /\ probe.out.message = "Amount exceeds maximum limit"

\* C6: for a finite amount validateAmount answers 'Amount cannot be negative'
\* when it is < 0, 'Amount exceeds maximum limit' when it is >
\* 999,999,999,999, and returns true otherwise; 0 and 999,999,999,999 are
\* accepted.
C6_FiniteOutcomes ==
    (probe.op = "validateAmount" /\ probe.amount.k = "fin") =>
        \* the amount is hi * Base + q with |q| < Base
        LET hi == probe.amount.hi
            q == probe.amount.q
            negative == hi < 0 \/ (hi = 0 /\ q[1] < 0)
            aboveLimit == hi > MaxAmountHi \/ (hi = MaxAmountHi /\ q[1] > MaxAmountLo * q[2])
        IN  /\ Abs(q[1]) < Base * q[2]
            /\ probe.out =
                  IF negative
                  THEN ValidationError("Amount cannot be negative", "amount")
                  ELSE IF aboveLimit
                  THEN ValidationError("Amount exceeds maximum limit", "amount")
                  ELSE Ok

\* validateAmount(999999999999) has returned true
C6_Witness ==
    /\ probe.op = "validateAmount"
    /\ probe.amount = Big(MaxAmountHi, RInt(MaxAmountLo))
    /\ probe.out = Ok

\* C7 as stated: validateCurrency returns true exactly for the 26 keys of the
\* rate table and throws CurrencyError, carrying the code, for every other
\* string.
C7_ExactlyTheKeys ==
    probe.op = "validateCurrency" =>
        IF probe.code \in Keys
        THEN probe.out = Ok
        ELSE /\ probe.out.k = "throw"
             /\ probe.out.name = "CurrencyError"
             /\ probe.out.currencyCode = probe.code

\* C8: calculateCompoundInterestRecursive(P, r, n) returns P * (1 + r)^n for
\* P >= 0, 0 <= r <= 1 and n in 1..50, and P itself for n = 0.
C8_ClosedForm ==
    probe.op = "compound" =>
        LET P == Rat(probe.principal)
            r == Rat(probe.rate)
            n == probe.years
            \* P * (1 + r)^n; the power is not taken when P is 0
            closedForm == IF P[1] = 0 THEN RInt(0)
                          ELSE RMul(P, RNorm((r[1] + r[2])^n, r[2]^n))
        IN  /\ probe.out.k = "ret"
            /\ n = 0 => probe.out.value = probe.principal
            /\ probe.out.value = Fin(closedForm)

\* 1000 at 5% for 3 years: 1157.625 = 9261 / 8
C8_Witness ==
    /\ probe.op = "compound"
    /\ probe.principal = Fin(RInt(1000))
    /\ probe.rate = Fin(<<1, 20>>)
    /\ probe.years = 3
    /\ probe.out.value = Fin(<<9261, 8>>)

\* C9: for years in 1..50 calculateCompoundInterestRecursive returns after
\* `years` nested calls, and the steps it filled are years + 1 entries,
\* oldest first: 'Year 0 (Base)' and then 'Year k' for k in 1..years.
C9_DepthAndSteps ==
    (probe.op = "compound" /\ probe.years >= 1) =>
        /\ probe.out.k = "ret"
        /\ probe.out.depth = probe.years
        /\ Len(probe.out.steps) = probe.years + 1
        /\ probe.out.steps[1].year = 0
        /\ probe.out.steps[1].label = "Year 0 (Base)"
        /\ \A k \in 1..probe.years :
              /\ probe.out.steps[k + 1].year = k
              /\ probe.out.steps[k + 1].label = "Year"

\* a call for 50 years has returned with 51 steps
C9_Witness ==
    /\ probe.op = "compound"
    /\ probe.years = MaxYearsAllowed
    /\ probe.out.depth = MaxYearsAllowed
    /\ Len(probe.out.steps) = MaxYearsAllowed + 1
    /\ probe.out.steps[MaxYearsAllowed + 1].year = MaxYearsAllowed

\* C11: a call of convertThroughChain from depth 0 with codes that
\* validateCurrency lets through returns after at most one nested call: the
\* depth argument reaches 1 exactly when the codes differ and neither is USD,
\* and 0 otherwise, and the branch depth > 3 is never taken.
C11_DepthAtMostOne ==
    probe.op \in {"convert", "convertInherited", "back"} =>
        LET from == IF probe.op = "back" THEN probe.to ELSE probe.from
            to == IF probe.op = "back" THEN probe.from ELSE probe.to
        IN  /\ probe.out.k = "ret"
            /\ ~probe.out.guard
            /\ probe.out.depth <= 1
            /\ probe.out.depth = 1 <=> (from # to /\ from # "USD" /\ to # "USD")

\* EUR to GBP has gone through USD with one nested call
C11_Witness ==
    /\ probe.op = "convert"
    /\ probe.from = "EUR" /\ probe.to = "GBP"
    /\ probe.out.depth = 1
    /\ ~probe.out.guard
    /\ Len(probe.out.chain) = 2

\* C12: for registered codes and a valid amount, the amount
\* convertThroughChain returns equals amount * directRate, directRate being
\* rate[to] / rate[from] as convertCurrency computes it (the arithmetic here
\* is exact).
C12_AmountAgreesWithDirectRate ==
    probe.op = "convert" =>
        /\ probe.out.k = "ret"
        /\ probe.out.amount = JsMul(probe.amount, directRate(probe.from, probe.to))

\* 100 EUR to GBP: 1975 / 23 by the chain, and 100 * (79 / 92) by the rate
C12_Witness ==
    /\ probe.op = "convert"
    /\ probe.amount = Fin(RInt(100))
    /\ probe.from = "EUR" /\ probe.to = "GBP"
    /\ directRate(probe.from, probe.to) = Fin(<<79, 92>>)
    /\ probe.out.amount = Fin(<<1975, 23>>)

\* what the page shows is the outcome of convertCurrency on the values the
\* three inputs hold now
DisplayIsCurrent ==
    LET out == convertCurrency(amountValue, fromValue, toValue)
    IN  IF out.k = "shown"
        THEN /\ resultShown /\ ~errorShown
             /\ result = [resultAmount |-> out.resultAmount,
                          exchangeRate |-> out.exchangeRate,
                          conversionPath |-> out.conversionPath]
        ELSE /\ ~resultShown /\ errorShown
             /\ errorText = ConvertBanner(out.error)

\* C13: with converter events only, a conversion made at once by its event
\* leaves the debounce timer and the closure's `timeout` as they are, and in
\* every state after a conversion in which no debounce timer is pending the
\* page shows the outcome of convertCurrency on the current amount, from and
\* to values.
C13_DisplayConverges ==
    /\ []((last.handler = "convertCurrency" /\ timers = {}) => DisplayIsCurrent)
    /\ [][Immediate => (timers' = timers /\ timeout' = timeout)]_vars

\* after a burst of input its one debounced call has run on the exchanged
\* codes, and the page shows 100 EUR in USD
C13_Witness ==
    /\ last = [handler |-> "convertCurrency", calls |-> 1, rejected |-> FALSE]
    /\ timers = {}
    /\ burstMany /\ burstFires = 1
    /\ amountValue = "100" /\ fromValue = "EUR" /\ toValue = "USD"
    /\ resultShown /\ ~errorShown
    /\ DisplayIsCurrent

\* C14 as stated: with both handlers running in any order, the conversion
\* result panel and the error banner are never both visible.
C14_NeverBothVisible == ~(resultShown /\ errorShown)

=============================================================================
